---- MODULE Spec2Model ----
(***************************************************************************)
(* Markdown code generation of yamlresume: the rich-document tree (doc,    *)
(* paragraph, text, bulletList, orderedList, listItem, with bold / italic  *)
(* / link marks) rendered by MarkdownCodeGenerator.generate.               *)
(*                                                                         *)
(* Strings are sequences of one-character strings, so that concatenation,  *)
(* trailing-newline stripping and decimal formatting are computed rather   *)
(* than assumed.  An optional value (a field that may be `undefined`) is   *)
(* the record `undefined` or Some(v).                                      *)
(***************************************************************************)
EXTENDS Integers, Sequences, FiniteSets, TLC

VARIABLES node, context, result, pc

\* the build command (cli/src/commands/build.ts): the arguments of the call,
\* the programs found on PATH, the position in the call, what the call
\* returned or threw, the file system, and the steps taken so far
VARIABLES bargs, env, bpc, ret, fsys, trace

mdVars == <<node, context, result, pc>>

buildVars == <<bargs, env, bpc, ret, fsys, trace>>

vars == <<node, context, result, pc, bargs, env, bpc, ret, fsys, trace>>

-----------------------------------------------------------------------------
(* Bounds of the input space *)

\* longest text literal
MaxLit == 1
\* longest mark sequence on a text node
MaxMarks == 2
\* longest Fragment of a node given to generate
MaxChildren == 2
\* a resume path is made of at most MaxPieces pieces (names, separators,
\* extensions)
MaxPieces == 3
\* orderedList start values range over -MaxStart..MaxStart
MaxStart == 9

-----------------------------------------------------------------------------
(* Optional values *)

undefined == [some |-> FALSE]

Some(v) == [some |-> TRUE, val |-> v]

\* sequences over S of length at most n
SeqUpTo(S, n) == UNION {[1..k -> S] : k \in 0..n}

\* an optional Fragment over S: absent, or a sequence of at most n nodes
Fragments(S, n) == {undefined} \cup {Some(f) : f \in SeqUpTo(S, n)}

-----------------------------------------------------------------------------
(* The document model (compiler/ast): nodes and marks *)

Bold == [type |-> "bold"]

Italic == [type |-> "italic"]

\* a link mark; attrs is optional and so is attrs.href
Link(attrs) == [type |-> "link", attrs |-> attrs]

TextNode(text, marks) == [type |-> "text", text |-> text, marks |-> marks]

ParagraphNode(content) == [type |-> "paragraph", content |-> content]

ListItemNode(content) == [type |-> "listItem", content |-> content]

BulletListNode(content) == [type |-> "bulletList", content |-> content]

\* attrs is optional and so is attrs.start
OrderedListNode(attrs, content) ==
  [type |-> "orderedList", attrs |-> attrs, content |-> content]

DocNode(content) == [type |-> "doc", content |-> content]

-----------------------------------------------------------------------------
(* String helpers: what the JavaScript string operations of the source do *)

NL == "\n"

Digits == <<"0", "1", "2", "3", "4", "5", "6", "7", "8", "9">>

RECURSIVE natToString(_)
\* decimal digits of a natural number, most significant first
natToString(n) ==
  IF n < 10 THEN <<Digits[n + 1]>>
  ELSE natToString(n \div 10) \o <<Digits[(n % 10) + 1]>>

\* `${currentNumber}` in a template literal: the decimal form, "-" first
\* for a negative integer
numberToString(n) ==
  IF n < 0 THEN <<"-">> \o natToString(0 - n) ELSE natToString(n)

\* a variant that removes one trailing newline only, as /\n$/ would
stripOneTrailingNewline(s) ==
  IF s # <<>> /\ s[Len(s)] = NL THEN SubSeq(s, 1, Len(s) - 1) ELSE s

RECURSIVE stripTrailingNewlines(_)
\* itemContent.replace(/\n+$/, ''): the whole run of newlines that ends the
\* string is removed, nothing else
stripTrailingNewlines(s) ==
  IF s # <<>> /\ s[Len(s)] = NL
  THEN stripTrailingNewlines(SubSeq(s, 1, Len(s) - 1))
  ELSE s

RECURSIVE removeNewlines(_)
\* a string without any of its newline characters
removeNewlines(s) ==
  IF s = <<>> THEN <<>>
  ELSE (IF Head(s) = NL THEN <<>> ELSE <<Head(s)>>) \o removeNewlines(Tail(s))

RECURSIVE joinWith(_, _)
\* Array.prototype.join(separator)
joinWith(strings, separator) ==
  IF strings = <<>> THEN <<>>
  ELSE IF Len(strings) = 1 THEN Head(strings)
  ELSE Head(strings) \o separator \o joinWith(Tail(strings), separator)

RECURSIVE join(_)
\* Array.prototype.join(''): the strings one after the other
join(strings) ==
  IF strings = <<>> THEN <<>> ELSE Head(strings) \o join(Tail(strings))

-----------------------------------------------------------------------------
(* The Markdown renderer *)

RECURSIVE nodeToMarkdown(_, _)
RECURSIVE fragmentToMarkdown(_, _)
RECURSIVE orderedListItems(_, _, _, _)

\* the default of `node.attrs?.start ?? 1`
DefaultStart == 1

\* a variant whose italic delimiter is the underscore
applyMarkToTextUnderscore(text, mark, ctx) ==
  CASE mark.type = "bold" -> <<"*", "*">> \o text \o <<"*", "*">>
    [] mark.type = "italic" -> <<"_">> \o text \o <<"_">>
    [] mark.type = "link" ->
         <<"[">> \o text \o <<"]", "(">>
           \o (IF mark.attrs.some /\ mark.attrs.val.href.some
               THEN mark.attrs.val.href.val
               ELSE <<>>)
           \o <<")">>

\* a variant without the `?? ''` default: an absent href is interpolated as
\* the word undefined
applyMarkToTextNoDefault(text, mark, ctx) ==
  CASE mark.type = "bold" -> <<"*", "*">> \o text \o <<"*", "*">>
    [] mark.type = "italic" -> <<"*">> \o text \o <<"*">>
    [] mark.type = "link" ->
         <<"[">> \o text \o <<"]", "(">>
           \o (IF mark.attrs.some /\ mark.attrs.val.href.some
               THEN mark.attrs.val.href.val
               ELSE <<"u", "n", "d", "e", "f", "i", "n", "e", "d">>)
           \o <<")">>

\* one mark wrapped around the text rendered so far; `mark.attrs?.href ?? ''`
\* is the href, or the empty string when attrs or href is absent
applyMarkToText(text, mark, ctx) ==
  CASE mark.type = "bold" -> <<"*", "*">> \o text \o <<"*", "*">>
    [] mark.type = "italic" -> <<"*">> \o text \o <<"*">>
    [] mark.type = "link" ->
         <<"[">> \o text \o <<"]", "(">>
           \o (IF mark.attrs.some /\ mark.attrs.val.href.some
               THEN mark.attrs.val.href.val
               ELSE <<>>)
           \o <<")">>

RECURSIVE reduceMarksRight(_, _, _)
\* a variant that folds from the last mark to the first, as reduceRight would
reduceMarksRight(marks, text, ctx) ==
  IF marks = <<>> THEN text
  ELSE reduceMarksRight(SubSeq(marks, 1, Len(marks) - 1),
                        applyMarkToText(text, marks[Len(marks)], ctx), ctx)

RECURSIVE reduceMarks(_, _, _)
\* node.marks.reduce((text, mark) => applyMarkToText(text, mark, context), text)
reduceMarks(marks, text, ctx) ==
  IF marks = <<>> THEN text
  ELSE reduceMarks(Tail(marks), applyMarkToText(text, Head(marks), ctx), ctx)

\* `context` is handed on to every call; the marks are applied in order
textNodeToMarkdown(n, ctx) ==
  IF n.marks = undefined THEN n.text
  ELSE reduceMarks(n.marks.val, n.text, ctx)

\* a variant that tests for absent content only
paragraphNoLengthCheck(n, ctx) ==
  IF n.content = undefined
  THEN <<NL>>
  ELSE fragmentToMarkdown(n.content, ctx) \o <<NL, NL>>

\* a variant that ends a paragraph with one newline
paragraphOneNewline(n, ctx) ==
  IF n.content = undefined \/ Len(n.content.val) = 0
  THEN <<NL>>
  ELSE fragmentToMarkdown(n.content, ctx) \o <<NL>>

paragraphNodeToMarkdown(n, ctx) ==
  IF n.content = undefined \/ Len(n.content.val) = 0
  THEN <<NL>>
  ELSE fragmentToMarkdown(n.content, ctx) \o <<NL, NL>>

RECURSIVE orderedListItemsByIndex(_, _, _, _)
\* a variant that numbers by position: every entry takes an ordinal
orderedListItemsByIndex(content, i, currentNumber, ctx) ==
  IF i > Len(content) THEN <<>>
  ELSE (IF content[i].type = "listItem"
        THEN numberToString(currentNumber) \o <<".", " ">>
               \o stripTrailingNewlines(
                    fragmentToMarkdown(content[i].content, ctx))
               \o <<NL>>
        ELSE <<>>)
         \o orderedListItemsByIndex(content, i + 1, currentNumber + 1, ctx)

RECURSIVE nestedOrdinals(_, _)
\* the number of listItem entries of the orderedLists among the entries of a
\* Fragment, from the i-th entry on
nestedOrdinals(entries, i) ==
  IF i > Len(entries) THEN 0
  ELSE (IF entries[i].type = "orderedList" /\ entries[i].content # undefined
        THEN Len(SelectSeq(entries[i].content.val,
                           LAMBDA c : c.type = "listItem"))
        ELSE 0)
         + nestedOrdinals(entries, i + 1)

RECURSIVE orderedListItemsSharedCounter(_, _, _, _)
\* a variant whose counter is shared with the lists nested in an item: the
\* ordinals they hand out are missing from the outer list
orderedListItemsSharedCounter(content, i, currentNumber, ctx) ==
  IF i > Len(content) THEN <<>>
  ELSE IF content[i].type = "listItem"
       THEN (numberToString(currentNumber) \o <<".", " ">>
               \o stripTrailingNewlines(
                    fragmentToMarkdown(content[i].content, ctx))
               \o <<NL>>)
              \o orderedListItemsSharedCounter(
                   content, i + 1,
                   currentNumber + 1
                     + (IF content[i].content = undefined THEN 0
                        ELSE nestedOrdinals(content[i].content.val, 1)),
                   ctx)
       ELSE orderedListItemsSharedCounter(content, i + 1, currentNumber, ctx)

\* the callback of node.content.map in orderedListNodeToMarkdown, from the
\* i-th entry on, with the closure variable currentNumber threaded through
orderedListItems(content, i, currentNumber, ctx) ==
  IF i > Len(content) THEN <<>>
  ELSE IF content[i].type = "listItem"
       THEN LET itemContent == fragmentToMarkdown(content[i].content, ctx)
                cleanContent == stripTrailingNewlines(itemContent)
            IN  (numberToString(currentNumber) \o <<".", " ">>
                   \o cleanContent \o <<NL>>)
                  \o orderedListItems(content, i + 1, currentNumber + 1, ctx)
       ELSE orderedListItems(content, i + 1, currentNumber, ctx)

\* a variant with `node.attrs?.start || 1`: a start of 0 becomes 1
orderedListStartOr(n, ctx) ==
  LET startNumber == IF n.attrs.some /\ n.attrs.val.start.some
                          /\ n.attrs.val.start.val # 0
                     THEN n.attrs.val.start.val
                     ELSE DefaultStart
  IN  IF n.content = undefined THEN <<>>
      ELSE orderedListItems(n.content.val, 1, startNumber, ctx)

orderedListNodeToMarkdown(n, ctx) ==
  LET startNumber == IF n.attrs.some /\ n.attrs.val.start.some
                     THEN n.attrs.val.start.val
                     ELSE DefaultStart
  IN  IF n.content = undefined THEN <<>>
      ELSE orderedListItems(n.content.val, 1, startNumber, ctx)

\* a variant that reads a layout option: with a context the marker is "* "
listItemMarkerFromContext(n, ctx) ==
  LET itemContent == fragmentToMarkdown(n.content, ctx)
      cleanContent == stripTrailingNewlines(itemContent)
  IN  (IF ctx = undefined THEN <<"-", " ">> ELSE <<"*", " ">>)
        \o cleanContent \o <<NL>>

\* a variant that removes every newline of the content, as /\n+/g would
listItemNoNewlines(n, ctx) ==
  LET itemContent == fragmentToMarkdown(n.content, ctx)
      cleanContent == removeNewlines(itemContent)
  IN  <<"-", " ">> \o cleanContent \o <<NL>>

listItemNodeToMarkdown(n, ctx) ==
  LET itemContent == fragmentToMarkdown(n.content, ctx)
      cleanContent == stripTrailingNewlines(itemContent)
  IN  <<"-", " ">> \o cleanContent \o <<NL>>

docNodeToMarkdown(n, ctx) == fragmentToMarkdown(n.content, ctx)

bulletListNodeToMarkdown(n, ctx) == fragmentToMarkdown(n.content, ctx)

\* a variant whose 'paragraph' case calls the renderer of doc
nodeToMarkdownParagraphAsDoc(n, ctx) ==
  CASE n.type = "bulletList" -> bulletListNodeToMarkdown(n, ctx)
    [] n.type = "doc" -> docNodeToMarkdown(n, ctx)
    [] n.type = "listItem" -> listItemNodeToMarkdown(n, ctx)
    [] n.type = "orderedList" -> orderedListNodeToMarkdown(n, ctx)
    [] n.type = "paragraph" -> docNodeToMarkdown(n, ctx)
    [] n.type = "text" -> textNodeToMarkdown(n, ctx)

nodeToMarkdown(n, ctx) ==
  CASE n.type = "bulletList" -> bulletListNodeToMarkdown(n, ctx)
    [] n.type = "doc" -> docNodeToMarkdown(n, ctx)
    [] n.type = "listItem" -> listItemNodeToMarkdown(n, ctx)
    [] n.type = "orderedList" -> orderedListNodeToMarkdown(n, ctx)
    [] n.type = "paragraph" -> paragraphNodeToMarkdown(n, ctx)
    [] n.type = "text" -> textNodeToMarkdown(n, ctx)

\* a variant with join(): the default separator is a comma
fragmentDefaultJoin(fragment, ctx) ==
  IF fragment = undefined THEN <<>>
  ELSE joinWith([i \in 1..Len(fragment.val) |->
                   nodeToMarkdown(fragment.val[i], ctx)], <<",">>)

fragmentToMarkdown(fragment, ctx) ==
  IF fragment = undefined THEN <<>>
  ELSE join([i \in 1..Len(fragment.val) |->
               nodeToMarkdown(fragment.val[i], ctx)])

-----------------------------------------------------------------------------
(* The inputs given to generate *)

TextChars == {"a", NL}

Literals == SeqUpTo(TextChars, MaxLit)

Hrefs == {<<"u">>}

Marks ==
  {Bold, Italic, Link(undefined), Link(Some([href |-> undefined]))}
    \cup {Link(Some([href |-> Some(h)])) : h \in Hrefs}

MarkSeqs == {undefined} \cup {Some(m) : m \in SeqUpTo(Marks, MaxMarks)}

TextNodes == {TextNode(t, m) : t \in Literals, m \in MarkSeqs}

\* the text nodes used as children
tA == TextNode(<<"a">>, undefined)
tB == TextNode(<<"b">>, Some(<<Bold>>))
tNL == TextNode(<<NL>>, undefined)
tEmpty == TextNode(<<>>, undefined)

InlineKids == {tA, tB, tNL, tEmpty}

Paragraphs == {ParagraphNode(c) : c \in Fragments(InlineKids, MaxChildren)}

\* the nodes used as children of doc, listItem and the two lists: well-formed
\* blocks and items, nested lists, and entries a list is not meant to hold
pAbsent == ParagraphNode(undefined)
pA == ParagraphNode(Some(<<tA>>))
pNL == ParagraphNode(Some(<<tNL>>))
iAbsent == ListItemNode(undefined)
iB == ListItemNode(Some(<<ParagraphNode(Some(<<tB>>))>>))
bB == BulletListNode(Some(<<iB>>))
bBad == BulletListNode(Some(<<tEmpty>>))
bMixed == BulletListNode(Some(<<pA, iAbsent>>))
oBB == OrderedListNode(undefined, Some(<<iB, iB>>))
iNest == ListItemNode(Some(<<pA, bB>>))

BlockKids ==
  {tA, pAbsent, pA, pNL, iAbsent, iB, iNest, bB, bBad, bMixed, oBB}

Starts == (0 - MaxStart)..MaxStart

OrderedAttrs ==
  {undefined, Some([start |-> undefined])}
    \cup {Some([start |-> Some(s)]) : s \in Starts}

Containers ==
  LET F == Fragments(BlockKids, MaxChildren)
  IN  {DocNode(c) : c \in F}
        \cup {ListItemNode(c) : c \in F}
        \cup {BulletListNode(c) : c \in F}
        \cup {OrderedListNode(a, c) : a \in OrderedAttrs, c \in F}

\* bulletLists as they occur nested in a listItem, some with entries that
\* are not listItem nodes
NestedLists ==
  {BulletListNode(c) :
     c \in Fragments({iAbsent, iB, iNest, pA, tEmpty}, MaxChildren)}

\* listItems made of a paragraph followed by a nested bulletList
NestedItems ==
  {ListItemNode(Some(<<p, l>>)) : p \in Paragraphs, l \in NestedLists}

\* listItems that hold a nested orderedList, numbered from 1 and from 5
oFrom5 == OrderedListNode(Some([start |-> Some(5)]), Some(<<iB>>))
iO == ListItemNode(Some(<<pA, oBB>>))
iO5 == ListItemNode(Some(<<oFrom5>>))

\* orderedLists whose items hold nested orderedLists
NestedOrdered ==
  {OrderedListNode(a, Some(c)) :
     a \in OrderedAttrs, c \in SeqUpTo({iB, iO, iO5}, MaxChildren)}

Inputs ==
  TextNodes \cup Paragraphs \cup Containers \cup NestedItems
    \cup NestedOrdered

\* CodeGenerationContext: absent, or an options object
Contexts == {undefined, Some([indent |-> "wide"])}

-----------------------------------------------------------------------------
(* The state machine: one call of MarkdownCodeGenerator.generate *)

\* no build is running
BuildIdle ==
  /\ bargs = undefined
  /\ env = [xelatex |-> FALSE, tectonic |-> FALSE]
  /\ bpc = "idle"
  /\ ret = undefined
  /\ fsys = [dirs |-> {}, files |-> {}]
  /\ trace = <<>>

Init ==
  /\ node \in Inputs
  /\ context \in Contexts
  /\ result = <<>>
  /\ pc = "ready"
  /\ BuildIdle

\* MarkdownCodeGenerator.generate(node, context)
generate ==
  /\ pc = "ready"
  /\ result' = nodeToMarkdown(node, context)
  /\ pc' = "done"
  /\ UNCHANGED <<node, context>>
  /\ UNCHANGED buildVars

\* a later call of generate on the same node, with the same context
generateAgain ==
  /\ pc = "done"
  /\ result' = nodeToMarkdown(node, context)
  /\ pc' = "again"
  /\ UNCHANGED <<node, context>>
  /\ UNCHANGED buildVars

Next == generate \/ generateAgain

Spec == Init /\ [][Next]_vars

-----------------------------------------------------------------------------
(* The build command: path and command inference (build.ts) *)

Return(v) == [value |-> v]

Throw(code) == [thrown |-> code]

\* JavaScript truthiness of an optional string: present and not empty
truthy(optString) == optString # undefined /\ optString.val # <<>>

dotYaml == <<".", "y", "a", "m", "l">>
dotYml == <<".", "y", "m", "l">>
dotJson == <<".", "j", "s", "o", "n">>
dotTex == <<".", "t", "e", "x">>
dotMd == <<".", "m", "d">>

\* String.prototype.endsWith
endsWith(s, suffix) ==
  /\ Len(suffix) <= Len(s)
  /\ SubSeq(s, Len(s) - Len(suffix) + 1, Len(s)) = suffix

\* pattern occurs in s at position i
occursAt(s, i, pattern) ==
  /\ i + Len(pattern) - 1 <= Len(s)
  /\ SubSeq(s, i, i + Len(pattern) - 1) = pattern

\* the length of the match of /\.yaml|\.yml|\.json$/ at position i, 0 for no
\* match: the $ belongs to the last alternative only
matchLength(s, i) ==
  IF occursAt(s, i, dotYaml) THEN Len(dotYaml)
  ELSE IF occursAt(s, i, dotYml) THEN Len(dotYml)
  ELSE IF occursAt(s, i, dotJson) /\ i + Len(dotJson) - 1 = Len(s)
       THEN Len(dotJson)
  ELSE 0

\* resumePath.replace(/\.yaml|\.yml|\.json$/, outputExt): the leftmost match
\* is replaced, and only that one
replaceExtension(s, outputExt) ==
  LET matches == {i \in 1..Len(s) : matchLength(s, i) > 0}
  IN  IF matches = {} THEN s
      ELSE LET i == CHOOSE j \in matches : \A k \in matches : j <= k
           IN  SubSeq(s, 1, i - 1) \o outputExt
                 \o SubSeq(s, i + matchLength(s, i), Len(s))

RECURSIVE stripTrailingSlashes(_)
stripTrailingSlashes(p) ==
  IF Len(p) > 1 /\ p[Len(p)] = "/"
  THEN stripTrailingSlashes(SubSeq(p, 1, Len(p) - 1))
  ELSE p

\* the position of the last "/" of p, 0 when there is none
lastSlash(p) ==
  LET slashes == {i \in 1..Len(p) : p[i] = "/"}
  IN  IF slashes = {} THEN 0
      ELSE CHOOSE i \in slashes : \A k \in slashes : k <= i

\* path.basename (posix): what follows the last separator, trailing
\* separators set aside
basename(p) ==
  LET q == stripTrailingSlashes(p)
  IN  IF q = <<"/">> THEN <<>> ELSE SubSeq(q, lastSlash(q) + 1, Len(q))

\* path.dirname (posix)
dirname(p) ==
  LET q == stripTrailingSlashes(p)
  IN  IF lastSlash(q) = 0 THEN <<".">>
      ELSE IF lastSlash(q) = 1 THEN <<"/">>
      ELSE stripTrailingSlashes(SubSeq(q, 1, lastSlash(q) - 1))

\* path.join(dir, name) for a directory without "." or ".." segments and a
\* name without separators
pathJoin(dir, name) ==
  IF dir = <<>> THEN name
  ELSE IF dir[Len(dir)] = "/" THEN dir \o name
  ELSE dir \o <<"/">> \o name

\* process.cwd()
Cwd == <<"/", "w">>

\* path.resolve(p) for a path without "." or ".." segments
pathResolve(p) ==
  IF p # <<>> /\ p[1] = "/" THEN stripTrailingSlashes(p)
  ELSE stripTrailingSlashes(pathJoin(Cwd, p))

inferOutput(resumePath, format, outputDir) ==
  IF \/ endsWith(resumePath, dotYaml)
     \/ endsWith(resumePath, dotYml)
     \/ endsWith(resumePath, dotJson)
  THEN LET outputExt == IF format = "markdown" THEN dotMd ELSE dotTex
           replaced == replaceExtension(resumePath, outputExt)
           baseName == basename(replaced)
       IN  IF truthy(outputDir)
           THEN Return(pathJoin(outputDir.val, baseName))
           ELSE Return(replaced)
  ELSE Throw("INVALID_EXTNAME")

\* which.sync(command) finds the command or not; e is what PATH holds
isCommandAvailable(command, e) == e[command]

\* a variant that looks for tectonic first
inferLaTeXEnvironmentTectonicFirst(e) ==
  IF isCommandAvailable("tectonic", e) THEN Return("tectonic")
  ELSE IF isCommandAvailable("xelatex", e) THEN Return("xelatex")
  ELSE Throw("LATEX_NOT_FOUND")

inferLaTeXEnvironment(e) ==
  IF isCommandAvailable("xelatex", e) THEN Return("xelatex")
  ELSE IF isCommandAvailable("tectonic", e) THEN Return("tectonic")
  ELSE Throw("LATEX_NOT_FOUND")

\* the environment is inferred first, then the tex file; what either throws
\* is thrown on
inferLaTeXCommand(resumePath, outputDir, e) ==
  LET environment == inferLaTeXEnvironment(e)
      texFile == inferOutput(resumePath, "latex", outputDir)
  IN  IF "thrown" \in DOMAIN environment THEN environment
      ELSE IF "thrown" \in DOMAIN texFile THEN texFile
      ELSE Return(
             [command |-> environment.value,
              args |-> IF environment.value = "xelatex"
                       THEN <<<<"-halt-on-error">>, basename(texFile.value)>>
                       ELSE <<basename(texFile.value)>>,
              cwd |-> IF truthy(outputDir)
                      THEN pathResolve(outputDir.val)
                      ELSE dirname(pathResolve(texFile.value))])

-----------------------------------------------------------------------------
(* Calls of the inference functions, one call per run *)

\* the pieces resume paths are made of
Pieces == {<<"r">>, <<"/">>, dotYaml, dotYml, dotJson, <<".", "t", "x", "t">>}

Paths == {join(ps) : ps \in SeqUpTo(Pieces, MaxPieces)}

OutputFormats == {"latex", "markdown"}

OutputDirs == {undefined, Some(<<>>), Some(<<"o", "u", "t">>)}

Environments == [xelatex : BOOLEAN, tectonic : BOOLEAN]

\* the generator is not called
MarkdownIdle ==
  /\ node = tEmpty
  /\ context = undefined
  /\ result = <<>>
  /\ pc = "idle"

InitInfer ==
  /\ MarkdownIdle
  /\ bargs \in [resumePath : Paths, format : OutputFormats,
                outputDir : OutputDirs]
  /\ env \in Environments
  /\ bpc = "ready"
  /\ ret = undefined
  /\ fsys = [dirs |-> {}, files |-> {}]
  /\ trace = <<>>

callInferOutput ==
  /\ bpc = "ready"
  /\ ret' = inferOutput(bargs.resumePath, bargs.format, bargs.outputDir)
  /\ bpc' = "inferOutput"
  /\ UNCHANGED <<bargs, env, fsys, trace>>
  /\ UNCHANGED mdVars

callInferLaTeXEnvironment ==
  /\ bpc = "ready"
  /\ ret' = inferLaTeXEnvironment(env)
  /\ bpc' = "inferLaTeXEnvironment"
  /\ UNCHANGED <<bargs, env, fsys, trace>>
  /\ UNCHANGED mdVars

callInferLaTeXCommand ==
  /\ bpc = "ready"
  /\ ret' = inferLaTeXCommand(bargs.resumePath, bargs.outputDir, env)
  /\ bpc' = "inferLaTeXCommand"
  /\ UNCHANGED <<bargs, env, fsys, trace>>
  /\ UNCHANGED mdVars

NextInfer ==
  \/ callInferOutput
  \/ callInferLaTeXEnvironment
  \/ callInferLaTeXCommand

SpecInfer == InitInfer /\ [][NextInfer]_vars

-----------------------------------------------------------------------------
(* The build command: buildResume, step by step *)

outDir == <<"o", "u", "t">>

\* the resume paths given to buildResume
BuildPaths ==
  {<<"r">> \o dotYaml,
   <<"/", "r">> \o dotJson,
   <<"r">> \o dotYml \o dotJson,
   <<"r", ".", "t", "x", "t">>}

\* the options object: every field is optional
BuildOptions ==
  [format : {undefined, Some("latex"), Some("markdown"), Some("html")},
   pdf : {undefined, Some(TRUE), Some(FALSE)},
   validate : {Some(TRUE), Some(FALSE)},
   output : {undefined, Some(outDir)}]

\* the default value of the parameter `options`
DefaultOptions ==
  [format |-> Some("latex"), pdf |-> Some(TRUE), validate |-> Some(TRUE),
   output |-> undefined]

\* the options in force: the default when the argument is omitted
options == IF bargs.options = undefined THEN DefaultOptions ELSE bargs.options.val

\* const format = options.format || 'latex'
format == IF options.format = undefined THEN "latex" ELSE options.format.val

\* options.pdf is truthy
pdfWanted == options.pdf # undefined /\ options.pdf.val

InitBuild ==
  /\ MarkdownIdle
  /\ bargs \in [resumePath : BuildPaths,
                options : {undefined} \cup {Some(o) : o \in BuildOptions}]
  /\ env \in Environments
  /\ bpc = "start"
  /\ ret = undefined
  /\ fsys \in [dirs : {{}, {outDir}}, files : {{}}]
  /\ trace = <<>>

\* build.ts 231-236: the format option is validated
checkFormat ==
  /\ bpc = "start"
  /\ trace' = Append(trace, "format")
  /\ IF format # "latex" /\ format # "markdown"
     THEN ret' = Throw("INVALID_FORMAT") /\ bpc' = "failed"
     ELSE ret' = ret /\ bpc' = "read"
  /\ UNCHANGED <<bargs, env, fsys>>
  /\ UNCHANGED mdVars

\* build.ts 238: readResume reads, and validates unless told not to; it
\* returns the resume or throws
readResume ==
  /\ bpc = "read"
  /\ trace' = Append(trace, "read")
  /\ \E read \in BOOLEAN :
       IF read
       THEN ret' = ret /\ bpc' = "generate"
       ELSE ret' = Throw("READ_RESUME_ERROR") /\ bpc' = "failed"
  /\ UNCHANGED <<bargs, env, fsys>>
  /\ UNCHANGED mdVars

\* build.ts 241, 173-195: the output file is inferred, the output directory
\* made if it is missing, the resume rendered and the file written; each of
\* the last three may fail
generateTeX ==
  /\ bpc = "generate"
  /\ LET outputFile == inferOutput(bargs.resumePath, format, options.output)
         makeDir == truthy(options.output)
                      /\ options.output.val \notin fsys.dirs
         dirsAfter == IF makeDir THEN fsys.dirs \cup {options.output.val}
                      ELSE fsys.dirs
         traceAfter == IF makeDir THEN Append(trace, "mkdir") ELSE trace
     IN  IF "thrown" \in DOMAIN outputFile
         THEN /\ ret' = outputFile
              /\ bpc' = "failed"
              /\ UNCHANGED <<fsys, trace>>
         ELSE \/ /\ makeDir
                 /\ ret' = Throw("MKDIR_ERROR")
                 /\ bpc' = "failed"
                 /\ UNCHANGED <<fsys, trace>>
              \/ /\ ret' = Throw("RENDER_ERROR")
                 /\ bpc' = "failed"
                 /\ fsys' = [fsys EXCEPT !.dirs = dirsAfter]
                 /\ trace' = traceAfter
              \/ /\ ret' = Throw("FILE_WRITE_ERROR")
                 /\ bpc' = "failed"
                 /\ fsys' = [fsys EXCEPT !.dirs = dirsAfter]
                 /\ trace' = traceAfter
              \/ /\ ret' = ret
                 /\ bpc' = "generated"
                 /\ fsys' = [dirs |-> dirsAfter,
                             files |-> fsys.files \cup {outputFile.value}]
                 /\ trace' = Append(traceAfter, "write")
  /\ UNCHANGED <<bargs, env>>
  /\ UNCHANGED mdVars

\* build.ts 244-252: no PDF for markdown, nor when the pdf option is off
returnWithoutPdf ==
  /\ bpc = "generated"
  /\ format = "markdown" \/ ~pdfWanted
  /\ ret' = Return(undefined)
  /\ bpc' = "done"
  /\ UNCHANGED <<bargs, env, fsys, trace>>
  /\ UNCHANGED mdVars

\* a variant without the return for markdown
inferCommandAlsoForMarkdown ==
  /\ bpc = "generated"
  /\ pdfWanted
  /\ trace' = Append(trace, "which")
  /\ ret' = inferLaTeXCommand(bargs.resumePath, options.output, env)
  /\ bpc' = IF "thrown" \in DOMAIN ret' THEN "failed" ELSE "exec"
  /\ UNCHANGED <<bargs, env, fsys>>
  /\ UNCHANGED mdVars

\* build.ts 255: the LaTeX command is inferred; ret holds it until it is run
inferCommand ==
  /\ bpc = "generated"
  /\ ~(format = "markdown" \/ ~pdfWanted)
  /\ trace' = Append(trace, "which")
  /\ ret' = inferLaTeXCommand(bargs.resumePath, options.output, env)
  /\ bpc' = IF "thrown" \in DOMAIN ret' THEN "failed" ELSE "exec"
  /\ UNCHANGED <<bargs, env, fsys>>
  /\ UNCHANGED mdVars

\* a variant that removes the generated file when the compilation fails
execaWithCleanup ==
  /\ bpc = "exec"
  /\ trace' = Append(trace, "exec")
  /\ \E compiled \in BOOLEAN :
       IF compiled
       THEN ret' = Return(undefined) /\ bpc' = "done" /\ fsys' = fsys
       ELSE /\ ret' = Throw("LATEX_COMPILE_ERROR")
            /\ bpc' = "failed"
            /\ fsys' = [fsys EXCEPT !.files = {}]
  /\ UNCHANGED <<bargs, env>>
  /\ UNCHANGED mdVars

\* build.ts 261-273: the command is run; its failure is LATEX_COMPILE_ERROR
execa ==
  /\ bpc = "exec"
  /\ trace' = Append(trace, "exec")
  /\ \E compiled \in BOOLEAN :
       IF compiled
       THEN ret' = Return(undefined) /\ bpc' = "done"
       ELSE ret' = Throw("LATEX_COMPILE_ERROR") /\ bpc' = "failed"
  /\ UNCHANGED <<bargs, env, fsys>>
  /\ UNCHANGED mdVars

NextBuild ==
  \/ checkFormat
  \/ readResume
  \/ generateTeX
  \/ returnWithoutPdf
  \/ inferCommand
  \/ execa

SpecBuild == InitBuild /\ [][NextBuild]_vars

-----------------------------------------------------------------------------
(* Properties of the renderer *)

\* the content of a node is absent or the empty sequence
NoContent(n) == n.content = undefined \/ n.content = Some(<<>>)

\* the entries of a present Fragment, none for an absent one
Entries(fragment) == IF fragment = undefined THEN <<>> ELSE fragment.val

\* s ends with one newline character and not with two
EndsWithOneNewline(s) ==
  /\ Len(s) >= 1
  /\ s[Len(s)] = NL
  /\ Len(s) >= 2 => s[Len(s) - 1] # NL

\* p is an initial part of s
IsPrefix(p, s) == Len(p) <= Len(s) /\ SubSeq(s, 1, Len(p)) = p

RECURSIVE ConcatRender(_, _)
\* nodeToMarkdown(c1) + ... + nodeToMarkdown(cn), nothing in between
ConcatRender(children, ctx) ==
  IF children = <<>> THEN <<>>
  ELSE nodeToMarkdown(Head(children), ctx) \o ConcatRender(Tail(children), ctx)

\* the entries of a Fragment that are listItem nodes, in order
OnlyListItems(children) == SelectSeq(children, LAMBDA c : c.type = "listItem")

\* C1: a doc, bulletList or orderedList whose content is absent or empty
\* renders as the empty string, and a paragraph whose content is absent or
\* empty renders as exactly one newline; absent and empty content agree.
C1_EmptyContent ==
  (pc = "done"
     /\ node.type \in {"doc", "bulletList", "orderedList", "paragraph"}
     /\ NoContent(node))
  => result = (IF node.type = "paragraph" THEN <<NL>> ELSE <<>>)

C1_Witness ==
  /\ pc = "done"
  /\ node = ParagraphNode(Some(<<>>))
  /\ result = <<NL>>

\* C2: a rendered listItem ends with exactly one newline, never two or more,
\* whatever its content: rendered directly with the "- " marker, and as every
\* listItem entry of a bulletList or of an orderedList (the list's output up
\* to and including that entry ends with exactly one newline).
C2_ItemEndsWithOneNewline ==
  pc = "done" =>
    /\ node.type = "listItem" => EndsWithOneNewline(result)
    /\ node.type \in {"bulletList", "orderedList"} =>
         \A k \in 1..Len(Entries(node.content)) :
           node.content.val[k].type = "listItem" =>
             LET upTo == [node EXCEPT
                            !.content = Some(SubSeq(node.content.val, 1, k))]
                 part == nodeToMarkdown(upTo, context)
             IN  IsPrefix(part, result) /\ EndsWithOneNewline(part)

C2_Witness ==
  /\ pc = "done"
  /\ node = ListItemNode(Some(<<pA, pNL>>))
  /\ fragmentToMarkdown(node.content, context) = <<"a", NL, NL, NL, NL, NL>>
  /\ result = <<"-", " ", "a", NL>>

RECURSIVE C3_NumberedFrom(_, _, _)
\* the items, each on a line that begins with its ordinal and ". ", the
\* ordinals being n, n + 1, ... in order
C3_NumberedFrom(items, n, ctx) ==
  IF items = <<>> THEN <<>>
  ELSE (numberToString(n) \o <<".", " ">>
          \o stripTrailingNewlines(
               fragmentToMarkdown(Head(items).content, ctx))
          \o <<NL>>)
         \o C3_NumberedFrom(Tail(items), n + 1, ctx)

\* the start value of an orderedList: 1 when attrs or attrs.start is absent
C3_Start(n) ==
  IF n.attrs = undefined \/ n.attrs.val.start = undefined
  THEN 1
  ELSE n.attrs.val.start.val

\* C3: in an orderedList of listItem children with start value s (1 when
\* attrs or attrs.start is absent; zero and negative values verbatim), the
\* i-th item's line (i from 0) begins with the decimal ordinal s + i and
\* ". ", in document order, whatever the items contain.
C3_Ordinals ==
  (pc = "done"
     /\ node.type = "orderedList"
     /\ node.content # undefined
     /\ \A k \in 1..Len(node.content.val) :
          node.content.val[k].type = "listItem")
  => result = C3_NumberedFrom(node.content.val, C3_Start(node), context)

C3_Witness ==
  /\ pc = "done"
  /\ node = OrderedListNode(Some([start |-> Some(9)]), Some(<<iB, iNest>>))
  /\ result = <<"9", ".", " ", "*", "*", "b", "*", "*", NL,
                "1", "0", ".", " ", "a", NL, NL,
                "-", " ", "*", "*", "b", "*", "*", NL>>

\* the destination of a link mark: its href, empty when attrs or href is absent
C4_Href(mark) ==
  IF mark.attrs = undefined \/ mark.attrs.val.href = undefined
  THEN <<>>
  ELSE mark.attrs.val.href.val

\* apply(mark, s) of the claim
C4_Apply(mark, s) ==
  IF mark.type = "bold" THEN <<"*", "*">> \o s \o <<"*", "*">>
  ELSE IF mark.type = "italic" THEN <<"*">> \o s \o <<"*">>
  ELSE <<"[">> \o s \o <<"]", "(">> \o C4_Href(mark) \o <<")">>

RECURSIVE C4_Nested(_, _)
\* apply(mn, ... apply(m1, t)): the last mark outermost
C4_Nested(marks, t) ==
  IF marks = <<>> THEN t
  ELSE C4_Apply(marks[Len(marks)],
                C4_Nested(SubSeq(marks, 1, Len(marks) - 1), t))

\* C4: a text node with literal t and marks m1..mn renders as
\* apply(mn, ... apply(m1, t)), each mark wrapping the already wrapped
\* string (first mark innermost, last mark outermost); with marks absent or
\* empty it renders as t.
C4_MarkFold ==
  (pc = "done" /\ node.type = "text")
  => result = C4_Nested(Entries(node.marks), node.text)

C4_Witness ==
  /\ pc = "done"
  /\ node = TextNode(<<"a">>, Some(<<Link(Some([href |-> Some(<<"u">>)])), Bold>>))
  /\ result = <<"*", "*", "[", "a", "]", "(", "u", ")", "*", "*">>

\* a link mark whose attrs are absent or lack href
C5_LinkWithoutHref(mark) ==
  /\ mark.type = "link"
  /\ mark.attrs = undefined \/ mark.attrs.val.href = undefined

\* C5: a link mark whose attrs are absent, or lack href, wraps the text
\* rendered by the marks before it as "[" + text + "]()": the call returns
\* and the link construct is there with an empty destination.
C5_LinkEmptyDestination ==
  (pc = "done" /\ node.type = "text" /\ node.marks # undefined)
  => \A k \in 1..Len(node.marks.val) :
       C5_LinkWithoutHref(node.marks.val[k]) =>
         LET marked(j) ==
               IF j = Len(node.marks.val) THEN result
               ELSE nodeToMarkdown(
                      TextNode(node.text, Some(SubSeq(node.marks.val, 1, j))),
                      context)
         IN  marked(k) = <<"[">> \o marked(k - 1) \o <<"]", "(", ")">>

C5_Witness ==
  /\ pc = "done"
  /\ node = TextNode(<<"a">>, Some(<<Italic, Link(undefined)>>))
  /\ result = <<"[", "*", "a", "*", "]", "(", ")">>

\* C6: a paragraph with at least one child renders as its children's
\* renderings one after the other, no separator, followed by "\n\n".
C6_ParagraphConcat ==
  (pc = "done" /\ node.type = "paragraph" /\ ~NoContent(node))
  => result = ConcatRender(node.content.val, context) \o <<NL, NL>>

C6_Witness ==
  /\ pc = "done"
  /\ node = ParagraphNode(Some(<<tA, tB>>))
  /\ result = <<"a", "*", "*", "b", "*", "*", NL, NL>>

\* a listItem whose content is a paragraph with children followed by a
\* bulletList that has a listItem
C7_ParagraphThenList(n) ==
  /\ n.type = "listItem"
  /\ n.content # undefined
  /\ Len(n.content.val) = 2
  /\ n.content.val[1].type = "paragraph"
  /\ ~NoContent(n.content.val[1])
  /\ n.content.val[2].type = "bulletList"
  /\ OnlyListItems(Entries(n.content.val[2].content)) # <<>>

\* C7: a listItem whose content is a non-empty paragraph P followed by a
\* non-empty nested bulletList L renders as "- " + the inline text of P +
\* "\n\n" + the rendering of L without its trailing newlines + "\n": the
\* blank line between the two is kept and the nested lines keep their marker.
C7_NestedList ==
  (pc = "done" /\ C7_ParagraphThenList(node))
  => LET P == node.content.val[1]
         L == node.content.val[2]
     IN  result = <<"-", " ">>
                    \o ConcatRender(P.content.val, context)
                    \o <<NL, NL>>
                    \o stripTrailingNewlines(nodeToMarkdown(L, context))
                    \o <<NL>>

C7_Witness ==
  /\ pc = "done"
  /\ node = ListItemNode(Some(<<pA, bB>>))
  /\ result = <<"-", " ", "a", NL, NL, "-", " ", "*", "*", "b", "*", "*", NL>>

\* C8: a doc or bulletList with children c1..cn renders as
\* nodeToMarkdown(c1) + ... + nodeToMarkdown(cn), nothing between or around;
\* so the rendering of a content split in two is the rendering of the first
\* part followed by the rendering of the second.
C8_Concatenation ==
  (pc = "done" /\ node.type \in {"doc", "bulletList"} /\ node.content # undefined)
  => /\ result = ConcatRender(node.content.val, context)
     /\ \A k \in 0..Len(node.content.val) :
          LET c == node.content.val
              first == [node EXCEPT !.content = Some(SubSeq(c, 1, k))]
              second == [node EXCEPT !.content = Some(SubSeq(c, k + 1, Len(c)))]
          IN  result = nodeToMarkdown(first, context)
                         \o nodeToMarkdown(second, context)

C8_Witness ==
  /\ pc = "done"
  /\ node = DocNode(Some(<<pA, bB>>))
  /\ result = <<"a", NL, NL, "-", " ", "*", "*", "b", "*", "*", NL>>

\* C9: in a bulletList, an entry that is not a listItem contributes the
\* empty string: the output is that of the same bulletList without such
\* entries.
C9_BulletListSkipsNonItems ==
  (pc = "done" /\ node.type = "bulletList" /\ node.content # undefined)
  => result = nodeToMarkdown(
                BulletListNode(Some(OnlyListItems(node.content.val))), context)

\* C10: in an orderedList, an entry that is not a listItem contributes the
\* empty string and takes no ordinal: the output is that of the same
\* orderedList, same start, without such entries.
C10_OrderedListSkipsNonItems ==
  (pc = "done" /\ node.type = "orderedList" /\ node.content # undefined)
  => result = nodeToMarkdown(
                OrderedListNode(node.attrs,
                                Some(OnlyListItems(node.content.val))),
                context)

C10_Witness ==
  /\ pc = "done"
  /\ node = OrderedListNode(Some([start |-> Some(0)]), Some(<<pA, iB>>))
  /\ result = <<"0", ".", " ", "*", "*", "b", "*", "*", NL>>

\* the six node variants
NodeTypes ==
  {"doc", "paragraph", "text", "bulletList", "orderedList", "listItem"}

\* the characters of the text literals, of the hrefs and of the markup
OutputChars ==
  TextChars \cup {"b", "u", "-", " ", ".", "*", "[", "]", "(", ")"}
    \cup {Digits[i] : i \in 1..Len(Digits)}

\* the renderer of the node's own variant, applied to the node
C11_OwnRenderer(n, ctx) ==
  IF n.type = "doc" THEN docNodeToMarkdown(n, ctx)
  ELSE IF n.type = "paragraph" THEN paragraphNodeToMarkdown(n, ctx)
  ELSE IF n.type = "text" THEN textNodeToMarkdown(n, ctx)
  ELSE IF n.type = "bulletList" THEN bulletListNodeToMarkdown(n, ctx)
  ELSE IF n.type = "orderedList" THEN orderedListNodeToMarkdown(n, ctx)
  ELSE listItemNodeToMarkdown(n, ctx)

\* C11: generate is total over trees of the six variants, with absent
\* content, attrs, start, marks or link attrs and with entries in a list that
\* are not listItem: the call can be made for every input, the dispatch
\* selects the renderer of the node's variant and no other, and what comes
\* back is a string.
C11_Total ==
  /\ node.type \in NodeTypes
  /\ pc = "ready" => nodeToMarkdown(node, context) \in Seq(OutputChars)
  /\ pc = "done" =>
       /\ result \in Seq(OutputChars)
       /\ result = C11_OwnRenderer(node, context)

C11_Witness ==
  /\ pc = "done"
  /\ node = OrderedListNode(Some([start |-> undefined]), Some(<<tA, iAbsent>>))
  /\ result = <<"1", ".", " ", NL>>

\* C12: the output does not depend on the context: generate(node, c1) =
\* generate(node, c2) for any two contexts, an absent one included, and the
\* context is never modified.
C12_ContextIndependent ==
  /\ [](pc = "done" =>
          \A c \in Contexts : nodeToMarkdown(node, c) = result)
  /\ [][context' = context]_vars

C12_Witness ==
  /\ pc = "done"
  /\ context # undefined
  /\ node = iNest
  /\ result = nodeToMarkdown(iNest, undefined)
  /\ result = <<"-", " ", "a", NL, NL, "-", " ", "*", "*", "b", "*", "*", NL>>

\* C13: a text node with marks [bold, italic] and one with marks
\* [italic, bold] render alike: three asterisks, the literal, three asterisks.
C13_BoldItalicEitherOrder ==
  (pc = "done"
     /\ node.type = "text"
     /\ node.marks \in {Some(<<Bold, Italic>>), Some(<<Italic, Bold>>)})
  => result = <<"*", "*", "*">> \o node.text \o <<"*", "*", "*">>

C13_Witness ==
  /\ pc = "done"
  /\ node = TextNode(<<"a">>, Some(<<Italic, Bold>>))
  /\ result = <<"*", "*", "*", "a", "*", "*", "*">>

\* an orderedList whose content is present and holds listItem nodes only
C16_ListOfItems(n) ==
  /\ n.type = "orderedList"
  /\ n.content # undefined
  /\ \A k \in 1..Len(n.content.val) : n.content.val[k].type = "listItem"

\* the rendering of the first k entries of a list
C16_UpTo(n, k, ctx) ==
  nodeToMarkdown([n EXCEPT !.content = Some(SubSeq(n.content.val, 1, k))], ctx)

\* the orderedLists directly inside an item keep their own numbering: each
\* one that has a listItem first begins with its own start
C16_NestedFromOwnStart(item, ctx) ==
  \A j \in 1..Len(Entries(item.content)) :
    LET o == item.content.val[j]
    IN  (C16_ListOfItems(o) /\ o.content.val # <<>>) =>
          IsPrefix(numberToString(C3_Start(o)) \o <<".", " ">>,
                   nodeToMarkdown(o, ctx))

\* C16: the ordinal counter belongs to one rendering of one orderedList.
\* The k-th outer item has the ordinal start + k - 1 whatever the number of
\* items of the lists nested in the items before it, a nested list is
\* numbered from its own start, the same orderedList at two places of a tree
\* renders alike, and a later call on the same node gives the same output.
C16_CounterPerRendering ==
  /\ [](pc = "done" =>
          /\ C16_ListOfItems(node) =>
               \A k \in 1..Len(node.content.val) :
                 LET item == node.content.val[k]
                     before == C16_UpTo(node, k - 1, context)
                     upTo == C16_UpTo(node, k, context)
                 IN  /\ IsPrefix(before, upTo)
                     /\ IsPrefix(upTo, result)
                     /\ SubSeq(upTo, Len(before) + 1, Len(upTo))
                          = numberToString(C3_Start(node) + k - 1)
                              \o <<".", " ">>
                              \o stripTrailingNewlines(
                                   ConcatRender(Entries(item.content), context))
                              \o <<NL>>
                     /\ C16_NestedFromOwnStart(item, context)
          /\ (node.type = "doc"
                /\ Len(Entries(node.content)) = 2
                /\ node.content.val[1] = node.content.val[2]
                /\ node.content.val[1].type = "orderedList") =>
               result = nodeToMarkdown(node.content.val[1], context)
                          \o nodeToMarkdown(node.content.val[1], context))
  /\ [][(pc = "done" /\ pc' = "again") => result' = result]_vars

C16_Witness ==
  /\ pc = "again"
  /\ node = OrderedListNode(Some([start |-> Some(9)]), Some(<<iO, iO5>>))
  /\ result = <<"9", ".", " ", "a", NL, NL,
                "1", ".", " ", "*", "*", "b", "*", "*", NL,
                "2", ".", " ", "*", "*", "b", "*", "*", NL,
                "1", "0", ".", " ",
                "5", ".", " ", "*", "*", "b", "*", "*", NL>>

-----------------------------------------------------------------------------
(* Properties of the build command *)

SourceExtensions == {dotYaml, dotYml, dotJson}

\* the path with its final source extension replaced by the output extension
C14_Renamed(resumePath, outputFormat) ==
  LET sourceExt == CHOOSE e \in SourceExtensions : endsWith(resumePath, e)
  IN  SubSeq(resumePath, 1, Len(resumePath) - Len(sourceExt))
        \o (IF outputFormat = "markdown" THEN dotMd ELSE dotTex)

\* C14: for a source path ending in .yaml, .yml or .json inferOutput returns
\* a path ending in .md (format markdown) or .tex (format latex): the source
\* path with its extension replaced, or outputDir joined with the base name
\* of that file when outputDir is given; for any other path it throws
\* INVALID_EXTNAME.
C14_InferOutput ==
  bpc = "inferOutput" =>
    IF \E e \in SourceExtensions : endsWith(bargs.resumePath, e)
    THEN LET renamed == C14_Renamed(bargs.resumePath, bargs.format)
         IN  ret = Return(IF truthy(bargs.outputDir)
                          THEN pathJoin(bargs.outputDir.val, basename(renamed))
                          ELSE renamed)
    ELSE ret = Throw("INVALID_EXTNAME")

\* C15: inferLaTeXEnvironment returns 'xelatex' whenever xelatex is on PATH,
\* 'tectonic' exactly when tectonic is and xelatex is not, and throws
\* LATEX_NOT_FOUND exactly when neither is; the command inferLaTeXCommand
\* builds is that program, with the base name of the inferred tex file as
\* its last argument.
C15_LaTeXEnvironment ==
  /\ bpc = "inferLaTeXEnvironment" =>
       /\ ret = Return("xelatex") <=> env.xelatex
       /\ ret = Return("tectonic") <=> (env.tectonic /\ ~env.xelatex)
       /\ ret = Throw("LATEX_NOT_FOUND") <=> (~env.tectonic /\ ~env.xelatex)
  /\ (bpc = "inferLaTeXCommand" /\ "value" \in DOMAIN ret) =>
       /\ ret.value.command = (IF env.xelatex THEN "xelatex" ELSE "tectonic")
       /\ ret.value.args[Len(ret.value.args)]
            = basename(inferOutput(bargs.resumePath, "latex",
                                   bargs.outputDir).value)

C15_Witness ==
  /\ bpc = "inferLaTeXCommand"
  /\ env = [xelatex |-> TRUE, tectonic |-> TRUE]
  /\ bargs.resumePath = <<"/", "r">> \o dotYaml
  /\ bargs.outputDir = Some(<<"o", "u", "t">>)
  /\ ret = Return([command |-> "xelatex",
                   args |-> <<<<"-halt-on-error">>, <<"r">> \o dotTex>>,
                   cwd |-> <<"/", "w", "/", "o", "u", "t">>])

\* the steps of buildResume in the order of the code
C17_Rank(step) ==
  CASE step = "format" -> 1
    [] step = "read" -> 2
    [] step = "mkdir" -> 3
    [] step = "write" -> 4
    [] step = "which" -> 5
    [] step = "exec" -> 6

\* the step was taken
Took(step) == \E i \in 1..Len(trace) : trace[i] = step

\* the format buildResume works with: 'latex' unless the option says otherwise
C17_Format ==
  IF bargs.options = undefined THEN "latex"
  ELSE IF bargs.options.val.format = undefined THEN "latex"
  ELSE bargs.options.val.format.val

\* the pdf option: true when the options are omitted, else its truthiness
C17_Pdf ==
  IF bargs.options = undefined THEN TRUE
  ELSE bargs.options.val.pdf = Some(TRUE)

\* the file generateTeX writes for format latex
C17_TexFile ==
  inferOutput(bargs.resumePath, "latex",
              IF bargs.options = undefined THEN undefined
              ELSE bargs.options.val.output).value

\* C17: in every run of buildResume the steps come in the order format
\* check, read, write, LaTeX compilation; the LaTeX command is run only if
\* the format is 'latex', the pdf option is truthy and the output file was
\* written, never for 'markdown'; and any other format raises INVALID_FORMAT
\* before the resume is read or a file is written.
C17_StepOrder ==
  /\ \A i, j \in 1..Len(trace) :
       i < j => C17_Rank(trace[i]) < C17_Rank(trace[j])
  /\ Took("read") => Took("format")
  /\ Took("write") => Took("read")
  /\ Took("exec") => Took("write")
  /\ Took("exec") =>
       /\ C17_Format = "latex"
       /\ C17_Pdf
       /\ C17_TexFile \in fsys.files
  /\ C17_Format = "markdown" => ~Took("exec")
  /\ (C17_Format \notin {"latex", "markdown"} /\ bpc # "start") =>
       /\ bpc = "failed"
       /\ ret = Throw("INVALID_FORMAT")
       /\ trace = <<"format">>
       /\ fsys.files = {}

C17_Witness ==
  /\ bpc = "done"
  /\ C17_Format = "latex"
  /\ trace = <<"format", "read", "mkdir", "write", "which", "exec">>

\* C18: buildResume does not roll back. The tex file is written before the
\* LaTeX programs are looked for, so a run that ends with LATEX_NOT_FOUND or
\* LATEX_COMPILE_ERROR leaves the written file in place; a run that fails
\* with INVALID_EXTNAME has made no directory and written no file.
C18_NoRollback ==
  /\ (bpc = "failed"
        /\ ret \in {Throw("LATEX_NOT_FOUND"), Throw("LATEX_COMPILE_ERROR")}) =>
       /\ \E i, j \in 1..Len(trace) :
            i < j /\ trace[i] = "write" /\ trace[j] = "which"
       /\ C17_TexFile \in fsys.files
  /\ (bpc = "failed" /\ ret = Throw("INVALID_EXTNAME")) =>
       /\ ~Took("mkdir")
       /\ ~Took("write")
       /\ fsys.files = {}

C18_Witness ==
  /\ bpc = "failed"
  /\ ret = Throw("LATEX_COMPILE_ERROR")
  /\ bargs.resumePath = <<"r">> \o dotYaml
  /\ fsys = [dirs |-> {outDir}, files |-> {outDir \o <<"/", "r">> \o dotTex}]
  /\ Took("mkdir")

====
